---- MODULE Spec2Model ----
(***************************************************************************)
(* A model of src/protocol/index.ts: the Protocol session that relays      *)
(* messages between the extension host and a webview.                      *)
(*                                                                         *)
(* JavaScript runs the session on one thread.  Every action below is one   *)
(* synchronous block of the code: from the start of a call (or from the    *)
(* resumption after an await) up to the next await or the return.          *)
(* An await on an externally supplied promise (the transport, the          *)
(* extension hook, the loader's write) is a separate action that the       *)
(* environment fires when that promise settles.                            *)
(*                                                                         *)
(* A JavaScript object is a function from its property names to values,    *)
(* so that object spread is function override.  A value of type `any` is   *)
(* tagged with its kind (undefined, object, array).                        *)
(***************************************************************************)
EXTENDS Integers, Sequences, FiniteSets, TLC

\* Bounds of the model.
MaxCalls == 3        \* calls from outside per run: inbound messages, host calls, notifications
MaxRejections == 1   \* deliveries the transport rejects per run
MaxHandling == 1     \* handleMessages calls suspended at an await at a time
MaxInFlight == 1     \* deliveries in flight when a call from outside arrives

VARIABLES
    ready,            \* Protocol.ready
    pendingMessages,  \* Protocol.pendingMessages, each message with its postMessage call number
    _disposables,     \* the subscriptions of the constructor that are still live
    _editing_key,     \* Protocol._editing_key
    _mode,            \* Protocol._mode
    flushes,          \* postMessage calls suspended in their for-await loop
    handling,         \* handleMessages calls suspended at an await
    sent,             \* history: the call numbers of the messages handed to the transport, in order
    failed,           \* history: the call numbers whose delivery the transport rejected
    nPosted,          \* history: the number of postMessage calls so far
    buffered,         \* history: the number of postMessage calls made before ready was set
    disposed,         \* history: dispose has been called
    lastRoute,        \* history: the keypath of the last 'route' message posted
    dropped,          \* history: the call numbers left behind in a batch by a rejected delivery
    last,             \* the last step: its operation, its input, what it posted, called and opened
    nCalls            \* number of calls from outside so far

vars == <<ready, pendingMessages, _disposables, _editing_key, _mode,
          flushes, handling, sent, failed, nPosted, buffered, disposed, lastRoute, dropped,
          last, nCalls>>

-----------------------------------------------------------------------------
\* JavaScript values

Undefined == [kind |-> "undefined"]
Obj(o) == [kind |-> "object", v |-> o]
Arr(s) == [kind |-> "array", v |-> s]
EmptyObject == << >>

\* The property name of the array element at (1-based) position i.
IndexKey(i) == <<"0", "1", "2", "3", "4">>[i]

\* The own enumerable properties object spread copies out of a value.
Spread(data) ==
    CASE data.kind = "object" -> data.v
      [] data.kind = "array" ->
            [k \in {IndexKey(i) : i \in 1..Len(data.v)} |->
                data.v[CHOOSE i \in 1..Len(data.v) : IndexKey(i) = k]]
      [] OTHER -> EmptyObject

\* { ...o, [k]: v }
With(o, k, v) == [x \in (DOMAIN o) \cup {k} |-> IF x = k THEN v ELSE o[x]]

\* { ...o, [k]: undefined }: reading k gives undefined, as when k is absent.
Without(o, k) == [x \in (DOMAIN o) \ {k} |-> o[x]]

Has(o, k) == k \in DOMAIN o

\* message.type, "" when the object has no type property.
TypeOf(m) == IF Has(m, "type") THEN m["type"] ELSE ""

-----------------------------------------------------------------------------
\* The collaborators' data, drawn anew at every call that reads them.

Keypaths == {"a.b", "missing.key"}
NoKey == "undefined"

\* The record the loader returns for a key it knows: data of its own, here with
\* a type and an _id property.
LocaleRecord(keypath, locale) ==
    Obj([keypath |-> keypath, locale |-> locale, value |-> "v", filepath |-> "en.json",
         meta |-> [namespace |-> "ns"], type |-> "record", _id |-> 99])

\* A snapshot of CurrentFile.loader: the keys it has a node and records for.
Loaders ==
    { [nodes |-> {"a.b"}, locales |-> <<"en", "fr">>],
      [nodes |-> {}, locales |-> <<"en", "fr">>] }

getRecordByKey(loader, keypath, locale) ==
    IF keypath \in loader.nodes THEN LocaleRecord(keypath, locale) ELSE Undefined

getNodeByKey(loader, keypath) ==
    IF keypath \in loader.nodes THEN Obj([keypath |-> keypath]) ELSE Undefined

\* window.activeTextEditor?.document, with the keys KeyDetector finds in it.
Editors ==
    { [active |-> FALSE, supported |-> FALSE, keys |-> << >>],
      [active |-> TRUE, supported |-> FALSE, keys |-> <<"a.b">>],
      [active |-> TRUE, supported |-> TRUE, keys |-> << >>],
      [active |-> TRUE, supported |-> TRUE, keys |-> <<"a.b">>] }

-----------------------------------------------------------------------------
\* The session as one value, so that the calls of a handler compose.  posts and
\* calls collect what the running step passes to postMessage and to the collaborators.

Cur == [ready |-> ready, pendingMessages |-> pendingMessages,
        _editing_key |-> _editing_key, flushes |-> flushes,
        sent |-> sent, nPosted |-> nPosted, posts |-> << >>, calls |-> << >>,
        opens |-> << >>]

\* The keypath of the last 'route' message among posts, none when there is none.
RouteOf(posts, none) ==
    LET routes == SelectSeq(posts, LAMBDA m : TypeOf(m) = "route")
    IN  IF routes = << >> THEN none ELSE routes[Len(routes)]["data"]["keypath"]

Commit(P, op, input, result) ==
    /\ ready' = P.ready
    /\ pendingMessages' = P.pendingMessages
    /\ _editing_key' = P._editing_key
    /\ flushes' = P.flushes
    /\ sent' = P.sent
    /\ nPosted' = P.nPosted
    /\ buffered' = IF ready THEN buffered ELSE IF P.ready THEN nPosted ELSE P.nPosted
    /\ lastRoute' = RouteOf(P.posts, lastRoute)
    /\ last' = [op |-> op, input |-> input, result |-> result,
                posts |-> P.posts, calls |-> P.calls, opens |-> P.opens]

\* A call on a collaborator that returns nothing to the session.
Call(P, fn, arg) == [P EXCEPT !.calls = Append(@, [fn |-> fn, arg |-> arg])]

-----------------------------------------------------------------------------
\* Protocol

\* get config(): the settings plus the caller's extendConfig, which wins.
Settings ==
    [debug |-> FALSE, review |-> TRUE, sourceLanguage |-> "en", displayLanguage |-> "en",
     enabledFrameworks |-> <<"vue">>, ignoredLocales |-> << >>,
     translateOverrideExisting |-> FALSE, user |-> "me"]
ExtendConfig == [user |-> "embedder"]
getFlagName(locale) == IF locale = "en" THEN "us" ELSE locale
config(loader) ==
    ExtendConfig @@
    [locales |-> loader.locales,
     flags |-> [i \in DOMAIN loader.locales |-> getFlagName(loader.locales[i])]] @@
    Settings

\* postMessage without the ready gate: it flushes whatever the flag says.
postMessage_NoGate(P, message) ==
    LET n == P.nPosted + 1
        queue == Append(P.pendingMessages, [msg |-> message, n |-> n])
    IN  [P EXCEPT !.nPosted = n, !.posts = Append(@, message),
                  !.pendingMessages = << >>,
                  !.flushes = @ \cup {[batch |-> queue, pos |-> 1]},
                  !.sent = Append(@, queue[1].n)]

\* postMessage that flushes the queue and forgets to replace it by an empty one.
postMessage_NoSwap(P, message) ==
    LET n == P.nPosted + 1
        queue == Append(P.pendingMessages, [msg |-> message, n |-> n])
        pushed == [P EXCEPT !.nPosted = n, !.posts = Append(@, message),
                            !.pendingMessages = queue]
    IN  IF P.ready
        THEN [pushed EXCEPT !.flushes = @ \cup {[batch |-> queue, pos |-> 1]},
                            !.sent = Append(@, queue[1].n)]
        ELSE pushed

\* postMessage with unshift in place of push.
postMessage_Unshift(P, message) ==
    LET n == P.nPosted + 1
        queue == <<[msg |-> message, n |-> n]>> \o P.pendingMessages
        pushed == [P EXCEPT !.nPosted = n, !.posts = Append(@, message),
                            !.pendingMessages = queue]
    IN  IF P.ready
        THEN [pushed EXCEPT !.pendingMessages = << >>,
                            !.flushes = @ \cup {[batch |-> queue, pos |-> 1]},
                            !.sent = Append(@, queue[1].n)]
        ELSE pushed

\* The synchronous part of postMessage: push, and when ready swap the queue for an
\* empty one and hand the first message of the batch to the transport.  The call
\* then stays suspended on that delivery (flushes).
postMessage(P, message) ==
    LET n == P.nPosted + 1
        queue == Append(P.pendingMessages, [msg |-> message, n |-> n])
        pushed == [P EXCEPT !.nPosted = n, !.posts = Append(@, message),
                            !.pendingMessages = queue]
    IN  IF P.ready
        THEN [pushed EXCEPT !.pendingMessages = << >>,
                            !.flushes = @ \cup {[batch |-> queue, pos |-> 1]},
                            !.sent = Append(@, queue[1].n)]
        ELSE pushed

\* The for-await loop of postMessage resuming after the delivery of batch[pos]
\* was fulfilled: the next message of the batch goes to the transport, or the loop ends.
resumeFlush(P, f) ==
    IF f.pos < Len(f.batch)
    THEN [P EXCEPT !.flushes = (@ \ {f}) \cup {[f EXCEPT !.pos = @ + 1]},
                   !.sent = Append(@, f.batch[f.pos + 1].n)]
    ELSE [P EXCEPT !.flushes = @ \ {f}]

\* a loop that catches the rejection and goes on with the next message of the batch
abortFlush_SkipsFailed(P, f) ==
    IF f.pos < Len(f.batch)
    THEN [P EXCEPT !.flushes = (@ \ {f}) \cup {[f EXCEPT !.pos = @ + 1]},
                   !.sent = Append(@, f.batch[f.pos + 1].n)]
    ELSE [P EXCEPT !.flushes = @ \ {f}]

\* The await of postMessage throwing: the call rejects, the rest of its batch is gone.
abortFlush(P, f) == [P EXCEPT !.flushes = @ \ {f}]

updateConfig(P, loader) == postMessage(P, [type |-> "config", data |-> config(loader)])

I18nMessages == [greeting |-> "hello"]
updateI18nMessages(P) == postMessage(P, [type |-> "i18n", data |-> I18nMessages])

\* record?.filepath and record?.meta?.namespace; an undefined property is left out.
Enriched(item, record) ==
    LET r == Spread(record)
        base == [keypath |-> item["keypath"], locale |-> item["locale"], value |-> item["value"]]
        fp == IF Has(r, "filepath") THEN "filepath" :> r["filepath"] ELSE EmptyObject
        ns == IF Has(r, "meta") /\ Has(r["meta"], "namespace")
              THEN "namespace" :> r["meta"]["namespace"] ELSE EmptyObject
    IN  base @@ fp @@ ns

\* setRecords that writes every item on its own.
setRecords_WritePerItem(P, loader, items) ==
    LET entry(i) == Enriched(items[i], getRecordByKey(loader, items[i]["keypath"], items[i]["locale"]))
        F[i \in 0..Len(items)] ==
            IF i = 0 THEN P ELSE Call(F[i - 1], "loader.write", [pendings |-> <<entry(i)>>])
    IN  F[Len(items)]

\* setRecords up to its await of loader.write.
setRecords(P, loader, items) ==
    Call(P, "loader.write",
         [pendings |-> [i \in 1..Len(items) |->
             Enriched(items[i], getRecordByKey(loader, items[i]["keypath"], items[i]["locale"]))]])

setContext(P, context) == postMessage(P, [type |-> "context", data |-> context])

\* the return value without the check of the language id
sendCurrentFileContextResult_AnyLanguage(editor) ==
    editor.active /\ Len(editor.keys) > 0

\* The value sendCurrentFileContext returns.
sendCurrentFileContextResult(editor) ==
    editor.active /\ editor.supported /\ Len(editor.keys) > 0

\* sendCurrentFileContext that clears the context in every mode
sendCurrentFileContext_ClearsInEveryMode(P, mode, loader, editor) ==
    LET P1 == setContext(P, EmptyObject)
        keys == [i \in 1..Len(editor.keys) |->
                    [key |-> editor.keys[i],
                     value |-> IF editor.keys[i] \in loader.nodes THEN "v" ELSE "undefined"]]
    IN  IF sendCurrentFileContextResult(editor)
        THEN setContext(P1, [filepath |-> "/w/app.vue", keys |-> keys])
        ELSE P1

sendCurrentFileContext(P, mode, loader, editor) ==
    LET P1 == IF mode = "standalone" THEN setContext(P, EmptyObject) ELSE P
        keys == [i \in 1..Len(editor.keys) |->
                    [key |-> editor.keys[i],
                     value |-> IF editor.keys[i] \in loader.nodes THEN "v" ELSE "undefined"]]
    IN  IF sendCurrentFileContextResult(editor)
        THEN setContext(P1, [filepath |-> "/w/app.vue", keys |-> keys])
        ELSE P1

\* openKey that refreshes the context before it posts the route
openKey_ContextFirst(P, mode, loader, editor, keypath, locale, index) ==
    IF getNodeByKey(loader, keypath) # Undefined
    THEN postMessage(
            sendCurrentFileContext(
                [P EXCEPT !._editing_key = keypath, !.opens = Append(@, keypath)],
                mode, loader, editor),
            [type |-> "route", route |-> "open-key",
             data |-> [locale |-> locale, keypath |-> keypath,
                       records |-> "shadow-locales", reviews |-> "reviews",
                       keyIndex |-> index]])
    ELSE [P EXCEPT !.opens = Append(@, keypath)]

\* openKey that records the editing key before it looks the node up
openKey_KeyBeforeLookup(P, mode, loader, editor, keypath, locale, index) ==
    IF getNodeByKey(loader, keypath) # Undefined
    THEN sendCurrentFileContext(
            postMessage([P EXCEPT !._editing_key = keypath, !.opens = Append(@, keypath)],
                        [type |-> "route", route |-> "open-key",
                         data |-> [locale |-> locale, keypath |-> keypath,
                                   records |-> "shadow-locales", reviews |-> "reviews",
                                   keyIndex |-> index]]),
            mode, loader, editor)
    ELSE [P EXCEPT !._editing_key = keypath, !.opens = Append(@, keypath)]

openKey(P, mode, loader, editor, keypath, locale, index) ==
    IF getNodeByKey(loader, keypath) # Undefined
    THEN sendCurrentFileContext(
            postMessage([P EXCEPT !._editing_key = keypath, !.opens = Append(@, keypath)],
                        [type |-> "route", route |-> "open-key",
                         data |-> [locale |-> locale, keypath |-> keypath,
                                   records |-> "shadow-locales", reviews |-> "reviews",
                                   keyIndex |-> index]]),
            mode, loader, editor)
    ELSE [P EXCEPT !.opens = Append(@, keypath)]

\* if (this._editing_key): undefined and the empty string are falsy.
Truthy(key) == key # NoKey /\ key # ""

\* The listener of CurrentFile.loader.onDidChange.
onLoaderChange(P, mode, loader, editor) ==
    IF Truthy(P._editing_key)
    THEN openKey(P, mode, loader, editor, P._editing_key, "undefined", -1)
    ELSE P

\* the listener of Global.reviews.onDidChange without the test of the keypath
onReviewsChange_AnyKeypath(P, mode, loader, editor, keypath) ==
    IF Truthy(P._editing_key)
    THEN openKey(P, mode, loader, editor, P._editing_key, "undefined", -1)
    ELSE P

\* The listener of Global.reviews.onDidChange.
onReviewsChange(P, mode, loader, editor, keypath) ==
    IF Truthy(P._editing_key) /\ (~Truthy(keypath) \/ P._editing_key = keypath)
    THEN openKey(P, mode, loader, editor, P._editing_key, "undefined", -1)
    ELSE P

\* reply with the correlation id written before the spread: { _id: message._id, ...data }.
reply_IdFirst(P, message, data) ==
    postMessage(P, IF Has(Spread(data), "_id") \/ ~Has(message, "_id")
                   THEN Spread(data)
                   ELSE With(Spread(data), "_id", message["_id"]))

\* The reply closure of handleMessages: { ...data, _id: message._id }.
reply(P, message, data) ==
    postMessage(P, IF Has(message, "_id")
                   THEN With(Spread(data), "_id", message["_id"])
                   ELSE Without(Spread(data), "_id"))

\* case 'ready' with the config pushed before the acknowledgement.
onReady_ConfigFirst(P, loader) ==
    updateI18nMessages(postMessage(updateConfig([P EXCEPT !.ready = TRUE], loader),
                                   [type |-> "ready"]))

\* case 'ready' of the switch.
onReady(P, loader) ==
    updateI18nMessages(updateConfig(
        postMessage([P EXCEPT !.ready = TRUE], [type |-> "ready"]), loader))

\* The arguments a review or translation case forwards.
KeyLocale(message) == [keypath |-> message["keypath"], locale |-> message["locale"]]

\* The case labels of the switch of handleMessages.
CaseLabels ==
    {"ready", "init", "get_record", "set_record", "get_records", "set_records", "translate",
     "review.description", "review.comment", "review.edit", "review.resolve",
     "review.apply-suggestion", "open-builtin-settings", "open-search",
     "translation.apply", "translation.edit", "translation.discard"}

\* The switch of handleMessages, up to the await of the set_record(s) cases.
dispatch(P, message, loader) ==
    LET t == TypeOf(message) IN
    CASE t = "ready" -> onReady(P, loader)
      [] t = "init" -> updateI18nMessages(P)
      [] t = "get_record" ->
            reply(P, message, getRecordByKey(loader, message["keypath"], message["locale"]))
      [] t = "set_record" -> setRecords(P, loader, <<message>>)
      [] t = "get_records" ->
            reply(P, message,
                  Arr([i \in 1..Len(message["items"]) |->
                        getRecordByKey(loader, message["items"][i]["keypath"],
                                       message["items"][i]["locale"])]))
      [] t = "set_records" -> setRecords(P, loader, message["items"])
      [] t = "translate" -> Call(P, "TranslateKeys", [data |-> message["data"]])
      [] t = "review.description" ->
            Call(P, "reviews.promptEditDescription", [keypath |-> message["keypath"]])
      [] t = "review.comment" ->
            Call(P, "reviews.addComment", KeyLocale(message) @@ [data |-> message["data"]])
      [] t = "review.edit" ->
            Call(P, "reviews.editComment", KeyLocale(message) @@ [data |-> message["data"]])
      [] t = "review.resolve" ->
            Call(P, "reviews.resolveComment",
                 KeyLocale(message) @@ [commentId |-> message["commentId"]])
      [] t = "review.apply-suggestion" ->
            Call(P, "reviews.applySuggestion",
                 KeyLocale(message) @@ [commentId |-> message["commentId"]])
      [] t = "open-builtin-settings" ->
            Call(P, "commands.executeCommand",
                 [command |-> "workbench.extensions.action.configure"])
      [] t = "open-search" ->
            Call(P, "commands.executeCommand", [command |-> "i18n-ally.open-editor"])
      [] t = "translation.apply" ->
            Call(P, "reviews.applyTranslationCandidate", KeyLocale(message))
      [] t = "translation.edit" ->
            Call(P, "reviews.promptEditTranslation", KeyLocale(message))
      [] t = "translation.discard" ->
            Call(P, "reviews.discardTranslationCandidate", KeyLocale(message))
      [] OTHER -> P

\* The cases that end in an await of loader.write.
AwaitsWrite(message) == TypeOf(message) \in {"set_record", "set_records"}

\* handleMessages that sets the flag before it looks at the hook's answer.
handleMessages_ReadyBeforeHook(P, message, handled, loader) ==
    IF handled
    THEN [P EXCEPT !.ready = @ \/ TypeOf(message) = "ready"]
    ELSE dispatch(P, message, loader)

\* handleMessages that does not return when the hook handled the message.
handleMessages_IgnoreHandled(P, message, handled, loader) == dispatch(P, message, loader)

\* handleMessages whose switch treats every other type as 'init'.
handleMessages_DefaultIsInit(P, message, handled, loader) ==
    IF handled THEN P
    ELSE IF TypeOf(message) \in CaseLabels THEN dispatch(P, message, loader)
    ELSE updateI18nMessages(P)

\* handleMessages resuming after the await of the hook.
handleMessages(P, message, handled, loader) ==
    IF handled THEN P ELSE dispatch(P, message, loader)

-----------------------------------------------------------------------------
\* Inputs

Item(keypath) == [keypath |-> keypath, locale |-> "en", value |-> "X"]

\* Inbound messages from the webview: every recognized type, and one that is not.
InboundMessages ==
    { [type |-> "ready"],
      [type |-> "init", _id |-> 3],
      [type |-> "get_record", _id |-> 42, keypath |-> "a.b", locale |-> "en"],
      [type |-> "get_record", keypath |-> "missing.key", locale |-> "en"],
      [type |-> "get_records", _id |-> 7, items |-> << >>],
      [type |-> "get_records", _id |-> 7, items |-> <<Item("a.b"), Item("missing.key")>>],
      [type |-> "set_record", _id |-> 5, keypath |-> "a.b", locale |-> "en", value |-> "X"],
      [type |-> "set_records", items |-> <<Item("a.b"), Item("missing.key")>>],
      [type |-> "translate", data |-> [keypath |-> "a.b"]],
      [type |-> "review.description", keypath |-> "a.b"],
      [type |-> "review.comment", keypath |-> "a.b", locale |-> "en", data |-> [comment |-> "c"]],
      [type |-> "review.edit", keypath |-> "a.b", locale |-> "en", data |-> [comment |-> "c"]],
      [type |-> "review.resolve", keypath |-> "a.b", locale |-> "en", commentId |-> "c1"],
      [type |-> "review.apply-suggestion", keypath |-> "a.b", locale |-> "en", commentId |-> "c1"],
      [type |-> "open-builtin-settings"],
      [type |-> "open-search"],
      [type |-> "translation.apply", keypath |-> "a.b", locale |-> "en"],
      [type |-> "translation.edit", keypath |-> "a.b", locale |-> "en"],
      [type |-> "translation.discard", keypath |-> "a.b", locale |-> "en"],
      [type |-> "unknown"] }

\* Messages the host passes to postMessage itself.
HostMessages == { [type |-> "custom"] }

Subscriptions == {"loader", "configuration", "reviews"}


-----------------------------------------------------------------------------
\* State machine

NoInput == EmptyObject

Init ==
    /\ ready = FALSE
    /\ pendingMessages = << >>
    /\ _disposables = Subscriptions
    /\ _editing_key = NoKey
    /\ _mode = "standalone"
    /\ flushes = {}
    /\ handling = {}
    /\ sent = << >>
    /\ failed = {}
    /\ nPosted = 0
    /\ buffered = 0
    /\ disposed = FALSE
    /\ lastRoute = NoKey
    /\ dropped = {}
    /\ last = [op |-> "constructor", input |-> NoInput, result |-> FALSE,
               posts |-> << >>, calls |-> << >>, opens |-> << >>]
    /\ nCalls = 0

\* A call from outside the session.
Outside ==
    /\ nCalls < MaxCalls
    /\ Cardinality(flushes) <= MaxInFlight
    /\ nCalls' = nCalls + 1

\* The host calls postMessage.
PostMessageCall(message) ==
    /\ Outside
    /\ Commit(postMessage(Cur, message), "postMessage", message, FALSE)
    /\ UNCHANGED <<_disposables, _mode, handling, failed, disposed, dropped>>

\* The host calls openKey.
OpenKeyCall(keypath, loader, editor) ==
    /\ Outside
    /\ Commit(openKey(Cur, _mode, loader, editor, keypath, "en", 0), "openKey",
              [keypath |-> keypath, locale |-> "en", index |-> 0],
              getNodeByKey(loader, keypath) # Undefined)
    /\ UNCHANGED <<_disposables, _mode, handling, failed, disposed, dropped>>

\* The host calls sendCurrentFileContext.
SendCurrentFileContextCall(loader, editor) ==
    /\ Outside
    /\ Commit(sendCurrentFileContext(Cur, _mode, loader, editor), "sendCurrentFileContext",
              editor, sendCurrentFileContextResult(editor))
    /\ UNCHANGED <<_disposables, _mode, handling, failed, disposed, dropped>>

\* set mode(v)
SetMode(v) ==
    /\ Outside
    /\ _mode' = IF _mode # v THEN v ELSE _mode
    /\ Commit(Cur, "mode", [mode |-> v], FALSE)
    /\ UNCHANGED <<_disposables, handling, failed, disposed, dropped>>

\* dispose() of a session whose configuration listener was registered without
\* the list of disposables
Dispose_KeepsConfiguration ==
    /\ Outside
    /\ _disposables' = _disposables \cap {"configuration"}
    /\ disposed' = TRUE
    /\ Commit(Cur, "dispose", NoInput, FALSE)
    /\ UNCHANGED <<_mode, handling, failed, dropped>>

\* dispose()
Dispose ==
    /\ Outside
    /\ _disposables' = {}
    /\ disposed' = TRUE
    /\ Commit(Cur, "dispose", NoInput, FALSE)
    /\ UNCHANGED <<_mode, handling, failed, dropped>>

\* CurrentFile.loader.onDidChange fires: the listener runs while its subscription
\* is live.  It calls openKey with the key alone: locale and index are undefined
\* ("undefined", -1).
LoaderChanged(loader, editor) ==
    /\ Outside
    /\ Commit(IF "loader" \in _disposables
              THEN onLoaderChange(Cur, _mode, loader, editor)
              ELSE Cur,
              "loader.onDidChange", NoInput, FALSE)
    /\ UNCHANGED <<_disposables, _mode, handling, failed, disposed, dropped>>

\* workspace.onDidChangeConfiguration fires.
ConfigurationChanged(loader) ==
    /\ Outside
    /\ Commit(IF "configuration" \in _disposables THEN updateConfig(Cur, loader) ELSE Cur,
              "onDidChangeConfiguration", NoInput, FALSE)
    /\ UNCHANGED <<_disposables, _mode, handling, failed, disposed, dropped>>

\* Global.reviews.onDidChange fires, with a keypath or without one (NoKey).
ReviewsChanged(keypath, loader, editor) ==
    /\ Outside
    /\ Commit(IF "reviews" \in _disposables
              THEN onReviewsChange(Cur, _mode, loader, editor, keypath)
              ELSE Cur,
              "reviews.onDidChange", [keypath |-> keypath], FALSE)
    /\ UNCHANGED <<_disposables, _mode, handling, failed, disposed, dropped>>

\* The webview's message arrives: handleMessages runs up to the await of the hook.
HandleMessagesCall(message) ==
    /\ Outside
    /\ Cardinality(handling) < MaxHandling
    /\ handling' = handling \cup {[message |-> message, call |-> nCalls + 1, pc |-> "hook"]}
    /\ Commit(Cur, "handleMessages", message, FALSE)
    /\ UNCHANGED <<_disposables, _mode, failed, disposed, dropped>>

\* The hook's promise settles (with nothing handled when there is no hook) and
\* handleMessages runs on, to its end or to the await of the write.
HookReturned(h, handled, loader) ==
    /\ h \in handling /\ h.pc = "hook"
    /\ Commit(handleMessages(Cur, h.message, handled, loader), "dispatch", h.message, handled)
    /\ handling' = IF ~handled /\ AwaitsWrite(h.message)
                   THEN (handling \ {h}) \cup {[h EXCEPT !.pc = "write"]}
                   ELSE handling \ {h}
    /\ UNCHANGED <<nCalls, _disposables, _mode, failed, disposed, dropped>>

\* loader.write settles: setRecords and handleMessages return.
WriteSettled(h) ==
    /\ h \in handling /\ h.pc = "write"
    /\ handling' = handling \ {h}
    /\ Commit(Cur, "written", h.message, FALSE)
    /\ UNCHANGED <<nCalls, _disposables, _mode, failed, disposed, dropped>>

\* The transport's promise for the message a flush awaits is fulfilled; the result
\* of the step says whether the batch had a next message.
DeliveryResolved(f) ==
    /\ f \in flushes
    /\ Commit(resumeFlush(Cur, f), "delivered", NoInput, f.pos < Len(f.batch))
    /\ UNCHANGED <<nCalls, handling, _disposables, _mode, failed, disposed, dropped>>

\* The transport's promise for the message a flush awaits is rejected.
DeliveryRejected(f) ==
    /\ f \in flushes
    /\ Cardinality(failed) < MaxRejections
    /\ Commit(abortFlush(Cur, f), "rejected", NoInput, FALSE)
    /\ failed' = failed \cup {f.batch[f.pos].n}
    /\ dropped' = dropped \cup {f.batch[i].n : i \in (f.pos + 1)..Len(f.batch)}
    /\ UNCHANGED <<nCalls, handling, _disposables, _mode, disposed>>

Next ==
    \/ \E message \in HostMessages : PostMessageCall(message)
    \/ \E keypath \in Keypaths, loader \in Loaders, editor \in Editors :
            OpenKeyCall(keypath, loader, editor)
    \/ \E loader \in Loaders, editor \in Editors : SendCurrentFileContextCall(loader, editor)
    \/ \E v \in {"standalone", "currentFile"} : SetMode(v)
    \/ Dispose
    \/ \E loader \in Loaders, editor \in Editors : LoaderChanged(loader, editor)
    \/ \E loader \in Loaders : ConfigurationChanged(loader)
    \/ \E keypath \in Keypaths \cup {NoKey}, loader \in Loaders, editor \in Editors :
            ReviewsChanged(keypath, loader, editor)
    \/ \E message \in InboundMessages : HandleMessagesCall(message)
    \/ \E h \in handling, handled \in BOOLEAN, loader \in Loaders : HookReturned(h, handled, loader)
    \/ \E h \in handling : WriteSettled(h)
    \/ \E f \in flushes : DeliveryResolved(f)
    \/ \E f \in flushes : DeliveryRejected(f)

Spec == Init /\ [][Next]_vars

\* The transport's promises are fulfilled in the end, and the for-await loops
\* they fulfil run on: the JavaScript job queue resumes every fulfilled await.
LiveSpec == Spec /\ WF_vars(\E f \in flushes : DeliveryResolved(f))

-----------------------------------------------------------------------------
\* Properties

Range(seq) == {seq[i] : i \in 1..Len(seq)}
Types(messages) == [i \in 1..Len(messages) |-> TypeOf(messages[i])]
Dispatched == last.op = "dispatch" /\ ~last.result
Intercepted == last.op = "dispatch" /\ last.result
AllHanded == \A n \in 1..nPosted : n \in Range(sent)
AtMostOnce == \A i, j \in 1..Len(sent) : sent[i] = sent[j] => i = j

\* C1: while ready is false the transport has never been invoked, and no
\* postMessage call is suspended on a delivery.
C1_NoDeliveryBeforeReady == ~ready => (sent = << >> /\ flushes = {})

\* Not ready after an inbound message was dispatched and posted, with two messages buffered.
C1_Witness ==
    /\ ~ready /\ Len(pendingMessages) >= 2
    /\ Dispatched /\ last.posts # << >>

\* C2: the transport is invoked in the order of the postMessage calls.
C2_GlobalFifo == \A i, j \in 1..Len(sent) : i < j => sent[i] < sent[j]

\* C3: at most one delivery is in flight: at most one postMessage call is
\* suspended on a transport promise.
C3_OneInFlight == Cardinality(flushes) <= 1

\* C4: no message is handed to the transport twice, and once the session is
\* ready every message posted so far is handed to it, unless a delivery failed.
C4_ExactlyOnce == [](AtMostOnce) /\ (ready ~> (failed # {} \/ AllHanded))

\* Two postMessage calls with the same message, both handed to the transport.
C4_Witness ==
    /\ failed = {} /\ AllHanded /\ nPosted >= 2
    /\ \E f \in flushes : /\ Len(f.batch) >= 2
                          /\ f.pos >= 2
                          /\ f.batch[1].msg = f.batch[2].msg
                          /\ f.batch[1].n # f.batch[2].n

\* C5: the messages posted before ready was set reach the transport in the
\* order they were posted.
C5_BufferedInOrder ==
    \A i, j \in 1..Len(sent) :
        (i < j /\ sent[i] <= buffered /\ sent[j] <= buffered) => sent[i] < sent[j]

\* Three buffered messages handed to the transport after ready was set.
C5_Witness == ready /\ buffered >= 3 /\ {1, 2, 3} \subseteq Range(sent)

\* C6: ready starts false and changes only to true, only in the dispatch of an
\* inbound 'ready' message that the hook did not handle.
C6_ReadyOnlyBySignal ==
    /\ ready = FALSE
    /\ [][ready' # ready =>
            /\ ~ready /\ ready'
            /\ last'.op = "dispatch" /\ ~last'.result
            /\ TypeOf(last'.input) = "ready"]_vars

\* Ready was set, and dispose has run since.
C6_Witness == ready /\ last.op = "dispose"

\* C7: the dispatch of an unhandled 'ready' message sets the flag and posts
\* 'ready', 'config', 'i18n' in this order; and once no delivery is pending and
\* none failed, every message posted was handed to the transport.
C7_ReadyHandshake ==
    /\ (Dispatched /\ TypeOf(last.input) = "ready") =>
            (ready /\ Types(last.posts) = <<"ready", "config", "i18n">>)
    /\ (ready /\ flushes = {} /\ failed = {}) => AllHanded

\* The handshake ran and its three messages were all handed to the transport.
C7_Witness ==
    /\ ready /\ flushes = {} /\ failed = {}
    /\ nPosted >= buffered + 3 /\ AllHanded

\* C8: a dispatch the hook reports as handled changes nothing of the session,
\* posts nothing, delivers nothing and calls no collaborator.
C8_InterceptedIsNoop ==
    [][(last'.op = "dispatch" /\ last'.result) =>
            /\ UNCHANGED <<ready, pendingMessages, _editing_key, flushes, sent, nPosted>>
            /\ last'.posts = << >>
            /\ last'.calls = << >>]_vars

\* An intercepted 'ready' message, the session still not ready.
C8_Witness == Intercepted /\ TypeOf(last.input) = "ready" /\ ~ready

\* C9: the dispatch of a get_record or get_records request with a correlation
\* id posts one message, whose _id is that id; the dispatch of any other type
\* posts no message with the request's id.
C9_ReplyCorrelation ==
    (Dispatched /\ Has(last.input, "_id")) =>
        IF TypeOf(last.input) \in {"get_record", "get_records"}
        THEN /\ Len(last.posts) = 1
             /\ Has(last.posts[1], "_id")
             /\ last.posts[1]["_id"] = last.input["_id"]
        ELSE \A i \in 1..Len(last.posts) :
                ~(Has(last.posts[i], "_id") /\ last.posts[i]["_id"] = last.input["_id"])

\* A get_record reply built from a record that has an _id of its own.
C9_Witness ==
    /\ Dispatched /\ TypeOf(last.input) = "get_record"
    /\ Len(last.posts) = 1
    /\ Has(last.posts[1], "keypath")
    /\ last.posts[1]["_id"] = 42

\* C10: every message passed to postMessage has a non-empty type.
C10_EveryMessageTyped == \A i \in 1..Len(last.posts) : TypeOf(last.posts[i]) # ""

\* The items a set_record or set_records message has setRecords write.
ItemsOf(message) == IF TypeOf(message) = "set_record" THEN <<message>> ELSE message["items"]

\* What entry e of a write must be for item it, given the record looked up for it.
EntryFor(e, it, record) ==
    /\ e["keypath"] = it["keypath"] /\ e["locale"] = it["locale"] /\ e["value"] = it["value"]
    /\ IF record = Undefined
       THEN DOMAIN e = {"keypath", "locale", "value"}
       ELSE /\ DOMAIN e = {"keypath", "locale", "value", "filepath", "namespace"}
            /\ e["filepath"] = record.v["filepath"]
            /\ e["namespace"] = record.v["meta"]["namespace"]

\* C11: the dispatch of an unhandled set_record(s) message makes one call, a
\* loader.write of one entry per item, in order, each with the item's keypath,
\* locale and value and the looked-up record's filepath and namespace; it posts
\* nothing, and handleMessages stays suspended until the write settles.
C11_OneBatchedWrite ==
    /\ (Dispatched /\ AwaitsWrite(last.input)) =>
        /\ last.posts = << >>
        /\ Len(last.calls) = 1
        /\ last.calls[1].fn = "loader.write"
        /\ \E loader \in Loaders :
             LET items == ItemsOf(last.input)
                 pendings == last.calls[1].arg.pendings
             IN  /\ Len(pendings) = Len(items)
                 /\ \A i \in 1..Len(items) :
                        EntryFor(pendings[i], items[i],
                                 getRecordByKey(loader, items[i]["keypath"], items[i]["locale"]))
        /\ \E h \in handling : h.pc = "write" /\ h.message = last.input
    /\ \A h \in handling : h.pc = "write" => AwaitsWrite(h.message)
    /\ last.op = "written" => (AwaitsWrite(last.input) /\ last.posts = << >> /\ last.calls = << >>)

\* A set_records write of two entries, the first with a record, the second without.
C11_Witness ==
    /\ Dispatched /\ TypeOf(last.input) = "set_records"
    /\ Len(last.calls) = 1
    /\ Len(last.calls[1].arg.pendings) = 2
    /\ Has(last.calls[1].arg.pendings[1], "namespace")
    /\ ~Has(last.calls[1].arg.pendings[2], "filepath")

\* The session's own state: what an operation that does nothing leaves alone.
session == <<ready, pendingMessages, _editing_key, _mode, _disposables, flushes, sent, failed,
             nPosted, handling>>

\* C12: openKey for a keypath whose node lookup returns nothing does nothing: it
\* posts no 'route' and no 'context' message (no message at all), calls no
\* collaborator, and leaves the editing key, the ready flag and the pending
\* queue (the whole session) as they were.
C12_OpenMissingKeyIsNoop ==
    [][(last'.op = "openKey" /\ ~last'.result) =>
            /\ last'.posts = << >>
            /\ last'.calls = << >>
            /\ UNCHANGED session]_vars

C12_Witness ==
    /\ last.op = "openKey" /\ ~last.result
    /\ last.input.keypath = "missing.key"
    /\ _editing_key = "a.b"
    /\ ~ready /\ pendingMessages # << >>

\* The 'context' messages among posts, in order.
Contexts(posts) == SelectSeq(posts, LAMBDA m : TypeOf(m) = "context")
Populated(m) == TypeOf(m) = "context" /\ Has(m["data"], "filepath")
\* m is the populated context of the editor's document: its file path and its keys.
PopulatedFor(m, editor) ==
    /\ Populated(m)
    /\ m["data"]["filepath"] = "/w/app.vue"
    /\ Len(m["data"]["keys"]) = Len(editor.keys)
    /\ \A i \in 1..Len(editor.keys) : m["data"]["keys"][i]["key"] = editor.keys[i]

\* C13 as stated: sendCurrentFileContext returns false and posts no populated
\* context when no document is active or its language is not supported, and
\* in every other case posts a populated context and returns true.
C13_TrueWheneverSupported ==
    last.op = "sendCurrentFileContext" =>
        IF ~last.input.active \/ ~last.input.supported
        THEN ~last.result /\ \A i \in 1..Len(last.posts) : ~Populated(last.posts[i])
        ELSE last.result /\ \E i \in 1..Len(last.posts) : PopulatedFor(last.posts[i], last.input)

\* C13 (amended): sendCurrentFileContext returns false and posts no populated
\* context when no document is active, its language is not supported, or no
\* key is detected in it; otherwise it posts one populated context with the
\* file path and the detected keys, as the last message, and returns true.
C13_TrueOnlyWithKeys ==
    last.op = "sendCurrentFileContext" =>
        IF ~last.input.active \/ ~last.input.supported \/ last.input.keys = << >>
        THEN ~last.result /\ \A i \in 1..Len(last.posts) : ~Populated(last.posts[i])
        ELSE /\ last.result
             /\ Len(SelectSeq(last.posts, Populated)) = 1
             /\ PopulatedFor(last.posts[Len(last.posts)], last.input)

C13_Witness ==
    /\ last.op = "sendCurrentFileContext"
    /\ last.input.active /\ last.input.supported /\ last.input.keys = << >>
    /\ ~last.result

Notifications == {"loader.onDidChange", "reviews.onDidChange", "onDidChangeConfiguration"}

\* C14: a loader, review or configuration notification that fires after dispose
\* posts no message, hands nothing to the transport and changes nothing in the
\* session; dispose itself leaves the queue and the flushes in progress alone,
\* and a flush goes on after dispose: once the session is ready and no flush
\* is left, every message posted was handed to the transport (or its batch
\* was cut by a rejected delivery).
C14_SilentAfterDispose ==
    /\ [][
          /\ (disposed /\ last'.op \in Notifications) =>
                (/\ last'.posts = << >> /\ last'.calls = << >> /\ last'.opens = << >>
                 /\ UNCHANGED session
                 /\ UNCHANGED lastRoute)
          /\ (last'.op = "dispose") =>
                (UNCHANGED <<ready, pendingMessages, _editing_key, flushes, sent, nPosted>>)
          /\ (disposed /\ last'.op = "delivered" /\ last'.result) =>
                (/\ Len(sent') = Len(sent) + 1
                 /\ \E f \in flushes :
                        f.pos < Len(f.batch) /\ sent'[Len(sent')] = f.batch[f.pos + 1].n)
       ]_vars
    /\ []((disposed /\ ready /\ flushes = {} /\ failed = {}) => AllHanded)

\* After dispose the flush of the buffered message and the acknowledgement,
\* begun before dispose, has handed the acknowledgement to the transport.
C14_Witness ==
    /\ disposed
    /\ last.op = "delivered" /\ last.result
    /\ sent = <<1, 3, 4, 2>>
    /\ flushes # {}

\* A notification fired after dispose.
C14_NotifiedAfterDispose == disposed /\ last.op \in Notifications /\ _editing_key # NoKey

\* C15: an inbound message that the hook did not handle and whose type is no
\* case label of the switch changes nothing: the ready flag, the pending queue,
\* the editing key and the rest of the session stay as they were, nothing is
\* posted or handed to the transport, no collaborator is called, and
\* handleMessages has returned (nothing of it is left suspended).
C15_UnknownTypeIsNoop ==
    [][(last'.op = "dispatch" /\ ~last'.result /\ TypeOf(last'.input) \notin CaseLabels) =>
            /\ last'.posts = << >>
            /\ last'.calls = << >>
            /\ last'.opens = << >>
            /\ UNCHANGED <<ready, pendingMessages, _editing_key, _mode, _disposables, flushes,
                           sent, failed, nPosted>>
            /\ \E h \in handling :
                    h.message = last'.input /\ h.pc = "hook" /\ handling' = handling \ {h}]_vars

\* An unknown message was dispatched while a message was buffered.
C15_Witness ==
    /\ Dispatched /\ TypeOf(last.input) = "unknown"
    /\ ~ready /\ pendingMessages # << >>
    /\ handling = {}

\* m is the 'route' message of openKey(keypath, locale, index).
RouteFor(m, keypath, locale, index) ==
    /\ TypeOf(m) = "route"
    /\ m["route"] = "open-key"
    /\ m["data"]["keypath"] = keypath
    /\ m["data"]["locale"] = locale
    /\ m["data"]["keyIndex"] = index

\* C16: openKey for a keypath whose node is found sets the editing key to that
\* keypath and posts exactly one 'route' message, with route 'open-key', that
\* keypath and the given locale and index; the route message is the first
\* message of the call, before every 'context' message of its context
\* refresh.  Whenever the editing key is defined it is the keypath of the
\* last 'route' message posted.
C16_RouteThenContext ==
    /\ (last.op = "openKey" /\ last.result) =>
            /\ _editing_key = last.input.keypath
            /\ last.opens = <<last.input.keypath>>
            /\ Len(last.posts) >= 1
            /\ RouteFor(last.posts[1], last.input.keypath, last.input.locale, last.input.index)
            /\ \A i \in 2..Len(last.posts) : TypeOf(last.posts[i]) = "context"
    /\ _editing_key # NoKey => _editing_key = lastRoute

\* openKey found the node and posted the route and two context messages.
C16_Witness ==
    /\ last.op = "openKey" /\ last.result
    /\ Types(last.posts) = <<"route", "context", "context">>
    /\ _editing_key = "a.b" /\ lastRoute = "a.b"

\* The notification re-opens the editing key: one openKey call, for that key.
Reopens == last'.opens = <<_editing_key>>
\* The notification does nothing.
Ignored ==
    /\ last'.opens = << >> /\ last'.posts = << >> /\ last'.calls = << >>
    /\ UNCHANGED session

\* C17: before dispose, a loader change re-opens the editing key (one openKey
\* call for it) exactly when an editing key is set; a review change re-opens
\* it exactly when an editing key is set and the notification carries no
\* keypath or the editing key itself; a notification that does not re-open
\* posts nothing and changes nothing in the session.
C17_ReopenOnChange ==
    [][
       /\ (~disposed /\ last'.op = "loader.onDidChange") =>
            IF _editing_key # NoKey THEN Reopens ELSE Ignored
       /\ (~disposed /\ last'.op = "reviews.onDidChange") =>
            IF /\ _editing_key # NoKey
               /\ last'.input.keypath \in {NoKey, _editing_key}
            THEN Reopens ELSE Ignored
      ]_vars

\* A review change for the editing key re-opened it, and the route was posted again.
C17_Witness ==
    /\ ~disposed
    /\ last.op = "reviews.onDidChange" /\ last.input.keypath = "a.b"
    /\ last.opens = <<"a.b">>
    /\ \E i \in 1..Len(last.posts) : RouteFor(last.posts[i], "a.b", "undefined", -1)

\* A review change for another key was ignored while an editing key was set.
C17_OtherKeyIgnored ==
    /\ ~disposed /\ _editing_key = "a.b"
    /\ last.op = "reviews.onDidChange" /\ last.input.keypath = "missing.key"
    /\ last.opens = << >>

EmptyContext(m) == TypeOf(m) = "context" /\ m["data"] = EmptyObject

\* C18: in 'standalone' mode a call of sendCurrentFileContext posts an empty
\* 'context' message first and then at most one populated one: one or two
\* context messages, the empty one first.  In 'currentFile' mode it posts no
\* empty context message and at most one context message, a populated one.
\* The same holds of the context refresh at the end of an openKey call.
C18_EmptyContextFirst ==
    (last.op = "sendCurrentFileContext" \/ (last.op = "openKey" /\ last.result)) =>
        LET ctx == Contexts(last.posts) IN
        /\ last.op = "sendCurrentFileContext" => ctx = last.posts
        /\ IF _mode = "standalone"
           THEN /\ Len(ctx) \in {1, 2}
                /\ EmptyContext(ctx[1])
                /\ Len(ctx) = 2 => Populated(ctx[2])
           ELSE /\ Len(ctx) <= 1
                /\ \A i \in 1..Len(ctx) : Populated(ctx[i]) /\ ~EmptyContext(ctx[i])

\* A standalone call posted the empty context and then the populated one.
C18_Witness ==
    /\ last.op = "sendCurrentFileContext"
    /\ _mode = "standalone"
    /\ Len(last.posts) = 2
    /\ EmptyContext(last.posts[1]) /\ Populated(last.posts[2])

\* A call in 'currentFile' mode posted the populated context alone.
C18_CurrentFileCall ==
    /\ last.op = "sendCurrentFileContext"
    /\ _mode = "currentFile"
    /\ Len(last.posts) = 1 /\ Populated(last.posts[1])

\* The call numbers of the messages the last step posted.
PostedByLast == (nPosted - Len(last.posts) + 1)..nPosted

\* C19: the messages that followed a rejected delivery in its batch are never
\* handed to the transport and are in no queue and no flush any more; ready
\* stays true after a rejection; and every message posted after a rejection
\* is handed to the transport by its own postMessage call.
C19_RejectionCutsBatch ==
    /\ dropped \cap Range(sent) = {}
    /\ \A i \in 1..Len(pendingMessages) : pendingMessages[i].n \notin dropped
    /\ \A f \in flushes : \A i \in 1..Len(f.batch) : f.batch[i].n \notin dropped
    /\ failed # {} => ready
    /\ (failed # {} /\ last.op \notin {"rejected", "delivered"}) => PostedByLast \subseteq Range(sent)

\* The delivery of a buffered message was rejected, the acknowledgement behind
\* it was left behind, and a later postMessage call handed over its own message.
C19_Witness ==
    /\ failed = {1} /\ dropped = {2}
    /\ ready /\ pendingMessages = << >>
    /\ last.op = "postMessage" /\ nPosted = 5
    /\ sent = <<1, 3, 4, 5>>

\* C20: between operations a ready session has an empty pending queue:
\* messages wait in the queue only while the session is not ready, and after
\* the first flush emptied the queue no step leaves a message in it.
C20_ReadyMeansEmptyQueue == ready => pendingMessages = << >>

\* The handshake has just flushed a queue that held two messages.
C20_Witness ==
    /\ ready /\ pendingMessages = << >>
    /\ buffered = 2
    /\ last.op = "dispatch" /\ TypeOf(last.input) = "ready" /\ ~last.result
    /\ Len(last.posts) = 3
====
